---- MODULE Spec2Model ----
(***************************************************************************)
(* The VFS dispatch layer of Tilck (kernel/fs/vfs.c): vfs_open, vfs_close, *)
(* vfs_dup, vfs_read, vfs_write, vfs_seek, vfs_ioctl, vfs_fcntl,           *)
(* vfs_mkdir, vfs_rmdir, vfs_unlink, and the device identifier allocator    *)
(* vfs_get_new_device_id, as a state machine of preemptible                *)
(* kernel threads calling into it.  Each thread is idle (between two        *)
(* calls), at a program point of one dispatch call, or at "ret": the call  *)
(* has returned and call[t] holds its result until the caller takes it.    *)
(***************************************************************************)
EXTENDS Integers, FiniteSets, Sequences, TLC

(* ------------------------------ bounds -------------------------------- *)
NumThreads == 3      \* concurrent execution contexts
MaxHandles == 2      \* handle slots the drivers can allocate
MaxPending == 2      \* references beyond the mount's and the handles', at a lookup
MaxDevCalls == 8     \* calls of vfs_get_new_device_id, one at a time
MaxRaceCalls == 4    \* calls of vfs_get_new_device_id, interleaved

(* --------------------------- program constants ------------------------ *)
EPERM == 1
ENOENT == 2
EIO == 5
EBADF == 9
EINVAL == 22
ENOTTY == 25
ESPIPE == 29
EROFS == 30
EOPNOTSUPP == 95
MountRefCount == 1   \* the reference the mount table itself holds

O_WRONLY == "O_WRONLY"
O_RDWR == "O_RDWR"
O_ASYNC == "O_ASYNC"
O_CLOEXEC == "O_CLOEXEC"
O_DIRECTORY == "O_DIRECTORY"
O_TMPFILE == {"__O_TMPFILE", O_DIRECTORY}   \* a multi-bit flag
FD_CLOEXEC == "FD_CLOEXEC"
VFS_FS_RW == "VFS_FS_RW"

Threads == 1..NumThreads
Pair == {1, 2}       \* the two callers the full specification interleaves
Trio == {1, 2, 3}    \* the three callers of the specification with fairness
NoThread == 0
FS == {"fs1", "fs2"}
NoFS == "nofs"
HandleIds == 1..MaxHandles
NoHandle == 0

StructOps == {"mkdir", "rmdir", "unlink"}
PathOps == {"open"} \cup StructOps
DataOps == {"read", "write", "seek", "ioctl", "fcntl"}

(* The flag words vfs_open is called with are sets of bits: every word
   with O_ASYNC or with all the bits of O_TMPFILE, and some without. *)
FlagBits == {O_WRONLY, O_RDWR, O_ASYNC, O_CLOEXEC} \cup O_TMPFILE

OpenFlags ==
  {w \in SUBSET FlagBits : O_ASYNC \in w \/ O_TMPFILE \subseteq w}
    \cup { {}, {O_WRONLY}, {O_RDWR, O_CLOEXEC}, {"__O_TMPFILE", O_WRONLY, O_RDWR},
           {O_DIRECTORY, O_CLOEXEC} }

(* The flag words of the concurrent specifications: one accepted, one
   rejected. *)
CoreFlags == { {O_RDWR}, {O_ASYNC} }

Whences == {"SEEK_SET", "SEEK_CUR", "SEEK_END", "SEEK_DATA"}
CoreWhences == {"SEEK_SET"}
Paths == {"/rw/f", "/alt/f", "/f"}
CorePaths == {"/rw/f", "/f"}

(* What the resolver and the drivers may report. *)
ResolveRcs == {0, -ENOENT}
DriverRcs == {0, -EIO}

(* The mounted filesystems: fs1 is a read-write mount of a driver with every
   capability; fs2 is drawn by the specification's initial condition: the
   same, a read-only mount, or a read-write mount of a driver without the
   optional operations.                                                     *)
FullMount == [flags |-> {VFS_FS_RW}, fsops |-> StructOps, fops |-> DataOps]
ReadOnlyMount == [flags |-> {}, fsops |-> StructOps, fops |-> {}]
BareMount == [flags |-> {VFS_FS_RW}, fsops |-> {}, fops |-> {}]
AltMounts == {ReadOnlyMount, BareMount}

(* The mounts the structural operations are checked on: with or without
   the read-write flag, the driver supplying any of mkdir, rmdir, unlink. *)
StructMounts ==
  {[flags |-> fl, fsops |-> o, fops |-> {}] :
     fl \in {{}, {VFS_FS_RW}}, o \in SUBSET StructOps}

VARIABLES
  mnt,        \* [FS -> [flags, fsops, fops]]: the mounted filesystems (fixed)
  ref_count,  \* [FS -> Nat]: the filesystems' reference counts
  fs_lock,    \* [FS -> Threads \cup {NoThread}]: owner of each fs lock
  handles,    \* [HandleIds -> handle record]: fs_handle_base of each slot
  h_lock,     \* [HandleIds -> [sh, ex]]: each handle's shared/exclusive lock
  pc,         \* [Threads -> program point]
  call,       \* [Threads -> the locals of the current call, with its result]
  held,       \* [Threads -> set of <<domain, object, mode>>]: locks held
  next_device_id,  \* the static u32 counter of device identifiers
  dev_ids     \* the identifiers vfs_get_new_device_id has returned, in order

vars == <<mnt, ref_count, fs_lock, handles, h_lock, pc, call, held,
          next_device_id, dev_ids>>

FreeHandle ==
  [state |-> "free", fs |-> NoFS, fl_flags |-> {}, fd_flags |-> {}, fops |-> {}]

NoCall ==
  [op |-> "none", fs |-> NoFS, h |-> NoHandle, flags |-> {},
   whence |-> "", rc |-> 0, out |-> NoHandle, net |-> 0,
   nlook |-> 0, nres |-> 0, ndrv |-> 0, nlock |-> 0, drv |-> 0,
   res |-> 0, asserted |-> TRUE]

(* ------------------------ external collaborators ---------------------- *)

(* The mount registry's lookup: the filesystem a path falls under. *)
get_fs_at(path) ==
  CASE path = "/rw/f" -> "fs1"
    [] path = "/alt/f" -> "fs2"
    [] OTHER -> NoFS

(* retain_obj / release_obj: atomic increment / decrement. *)
retain_obj(rc, f) == [rc EXCEPT ![f] = @ + 1]

release_obj(rc, f) == [rc EXCEPT ![f] = @ - 1]

(* kmutex of a filesystem: free or owned by one thread. *)
fs_lock_free(f) == fs_lock[f] = NoThread

(* The shared/exclusive lock of a handle. *)
h_can_lock(h, mode) ==
  IF mode = "sh" THEN ~h_lock[h].ex
  ELSE ~h_lock[h].ex /\ h_lock[h].sh = 0

h_locked(l, mode) ==
  IF mode = "sh" THEN [l EXCEPT !.sh = @ + 1] ELSE [l EXCEPT !.ex = TRUE]

h_unlocked(l, mode) ==
  IF mode = "sh" THEN [l EXCEPT !.sh = IF @ > 0 THEN @ - 1 ELSE 0]
  ELSE [l EXCEPT !.ex = FALSE]

(* The references of f that neither the mount table nor a handle owns:
   those of calls in flight, and those no release ever matched. *)
Pending(f) ==
  ref_count[f] - MountRefCount
    - Cardinality({h \in HandleIds : handles[h].fs = f})

(* A slot the driver may build a new handle in. *)
SlotFree(h) ==
  /\ handles[h].state = "free"
  /\ h_lock[h] = [sh |-> 0, ex |-> FALSE]
  /\ \A t \in Threads : call[t].h # h /\ call[t].out # h

FreeSlots == {h \in HandleIds : SlotFree(h)}

NewSlot == CHOOSE h \in FreeSlots : \A g \in FreeSlots : h <= g

(* ------------------------------- Init --------------------------------- *)
InitWith(M) ==
  /\ mnt \in {m \in [FS -> M \cup {FullMount}] :
                m["fs1"] = FullMount /\ m["fs2"] \in M}
  /\ ref_count = [f \in FS |-> MountRefCount]
  /\ fs_lock = [f \in FS |-> NoThread]
  /\ handles = [h \in HandleIds |-> FreeHandle]
  /\ h_lock = [h \in HandleIds |-> [sh |-> 0, ex |-> FALSE]]
  /\ pc = [t \in Threads |-> "idle"]
  /\ call = [t \in Threads |-> NoCall]
  /\ held = [t \in Threads |-> {}]
  /\ next_device_id = 0
  /\ dev_ids = <<>>

(* A call returns: the thread is at "ret" and call[t] holds the result. *)
Return(t, c) ==
  /\ pc' = [pc EXCEPT ![t] = "ret"]
  /\ call' = [call EXCEPT ![t] = c]

Goto(t, label, c) ==
  /\ pc' = [pc EXCEPT ![t] = label]
  /\ call' = [call EXCEPT ![t] = c]

(* ----------------- path-based operations (fs lock domain) ------------- *)

(* A faulty variant of vfs_open_check_flags: the two checks in the other
   order. *)
vfs_open_check_flags_swapped(flags) ==
  IF O_TMPFILE \subseteq flags THEN -EOPNOTSUPP
  ELSE IF O_ASYNC \in flags THEN -EINVAL
  ELSE 0

(* A faulty variant of vfs_open_check_flags: O_TMPFILE is let through to
   the lookup. *)
vfs_open_check_flags_async_only(flags) ==
  IF O_ASYNC \in flags THEN -EINVAL ELSE 0

(* vfs_open's checks of its flags, before any lookup. *)
vfs_open_check_flags(flags) ==
  IF O_ASYNC \in flags THEN -EINVAL
  ELSE IF O_TMPFILE \subseteq flags THEN -EOPNOTSUPP
  ELSE 0

(* A faulty variant of NoCapErr: the same error for the three operations. *)
NoCapErr_uniform(op) == -EPERM

(* The error of vfs_mkdir / vfs_rmdir / vfs_unlink when the driver lacks
   the operation. *)
NoCapErr(op) == IF op = "unlink" THEN -EROFS ELSE -EPERM

(* A faulty variant of StructPrecheck: the driver's operation is looked
   for before the read-write flag. *)
StructPrecheck_cap_first(op, f) ==
  IF op \notin mnt[f].fsops THEN NoCapErr(op)
  ELSE IF VFS_FS_RW \notin mnt[f].flags THEN -EROFS
  ELSE 0

(* The checks of vfs_mkdir / vfs_rmdir / vfs_unlink after the lookup. *)
StructPrecheck(op, f) ==
  IF VFS_FS_RW \notin mnt[f].flags THEN -EROFS
  ELSE IF op \notin mnt[f].fsops THEN NoCapErr(op)
  ELSE 0

(* Faulty variants of TakesFsLock: vfs_mkdir does not take the lock;
   vfs_open does not. *)
TakesFsLock_not_mkdir(op) == op \in PathOps \ {"mkdir"}

TakesFsLock_not_open(op) == op \in StructOps

(* Faulty variants of FsUnlocks: vfs_open returns with the lock held;
   vfs_mkdir does. *)
FsUnlocks_not_open(op) == op \in StructOps

FsUnlocks_not_mkdir(op) == op \in PathOps \ {"mkdir"}

(* Which path operations bracket resolve + driver call with
   vfs_fs_exlock / vfs_fs_exunlock. *)
TakesFsLock(op) == op \in PathOps

(* Which of them give the lock back with vfs_fs_exunlock. *)
FsUnlocks(op) == op \in PathOps

(* A faulty variant of vfs_open_releases: a failed open keeps the
   reference. *)
vfs_open_releases_never(rc) == FALSE

(* After its critical section, vfs_open releases the fs iff it failed. *)
vfs_open_releases(rc) == rc # 0

(* After their critical section the other path operations always release. *)
StructReleases(op) == op \in StructOps

vfs_open_begin(t, path, flags) ==
  /\ pc[t] = "idle"
  /\ LET f == get_fs_at(path)
         c0 == [NoCall EXCEPT !.op = "open", !.flags = flags]
         bad == vfs_open_check_flags(flags)
     IN
     IF bad # 0
       THEN Return(t, [c0 EXCEPT !.rc = bad]) /\ UNCHANGED ref_count
     ELSE IF f = NoFS
       THEN Return(t, [c0 EXCEPT !.rc = -ENOENT, !.nlook = 1])
            /\ UNCHANGED ref_count
     ELSE /\ Pending(f) < MaxPending
          /\ ref_count' = retain_obj(ref_count, f)
          /\ Goto(t, "fs_lock", [c0 EXCEPT !.fs = f, !.nlook = 1, !.net = 1])
  /\ UNCHANGED <<next_device_id, dev_ids, mnt, fs_lock, handles, h_lock, held>>

StructBegin(t, op, path) ==
  /\ pc[t] = "idle"
  /\ LET f == get_fs_at(path)
         c0 == [NoCall EXCEPT !.op = op]
     IN
     IF f = NoFS
       THEN Return(t, [c0 EXCEPT !.rc = -ENOENT, !.nlook = 1])
            /\ UNCHANGED ref_count
     ELSE /\ Pending(f) < MaxPending
          /\ ref_count' = retain_obj(ref_count, f)
          /\ LET c1 == [c0 EXCEPT !.fs = f, !.nlook = 1, !.net = 1]
                 bad == StructPrecheck(op, f)
             IN IF bad # 0 THEN Return(t, [c1 EXCEPT !.rc = bad])
                ELSE Goto(t, "fs_lock", c1)
  /\ UNCHANGED <<next_device_id, dev_ids, mnt, fs_lock, handles, h_lock, held>>

(* vfs_fs_exlock(fs) *)
PathOpLock(t, op) ==
  /\ pc[t] = "fs_lock" /\ call[t].op = op
  /\ LET f == call[t].fs IN
     IF TakesFsLock(op)
       THEN /\ fs_lock_free(f)
            /\ fs_lock' = [fs_lock EXCEPT ![f] = t]
            /\ held' = [held EXCEPT ![t] = @ \cup {<<"fs", f, "ex">>}]
            /\ Goto(t, "resolve", [call[t] EXCEPT !.nlock = @ + 1])
       ELSE /\ UNCHANGED <<fs_lock, held>>
            /\ Goto(t, "resolve", call[t])
  /\ UNCHANGED <<next_device_id, dev_ids, mnt, ref_count, handles, h_lock>>

(* A faulty variant of CallsDriver: the driver is called whatever the
   resolver returned. *)
CallsDriver_always(rc) == TRUE

(* if (!rc) rc = fs->fsops->...(&p, ...): the driver is called iff the
   resolver returned 0. *)
CallsDriver(rc) == rc = 0

(* rc = vfs_resolve(fs, fs_path, &p) *)
PathOpResolve(t, op) ==
  /\ pc[t] = "resolve" /\ call[t].op = op
  /\ \E rc \in ResolveRcs :
       Goto(t, IF CallsDriver(rc) THEN "driver" ELSE "fs_unlock",
            [call[t] EXCEPT !.rc = rc, !.res = rc, !.nres = @ + 1])
  /\ UNCHANGED <<next_device_id, dev_ids, mnt, ref_count, fs_lock, handles, h_lock, held>>

(* if (!rc) rc = fs->fsops->open(&p, out, flags, mode) *)
vfs_open_driver(t) ==
  /\ pc[t] = "driver" /\ call[t].op = "open"
  /\ \E rc \in DriverRcs :
       /\ rc = 0 => FreeSlots # {}
       /\ IF rc = 0
            THEN /\ handles' = [handles EXCEPT ![NewSlot] =
                       [state |-> "new", fs |-> call[t].fs, fl_flags |-> {},
                        fd_flags |-> {}, fops |-> mnt[call[t].fs].fops]]
                 /\ Goto(t, "fs_unlock",
                         [call[t] EXCEPT !.rc = rc, !.drv = rc,
                                         !.out = NewSlot, !.ndrv = @ + 1])
            ELSE /\ UNCHANGED handles
                 /\ Goto(t, "fs_unlock",
                         [call[t] EXCEPT !.rc = rc, !.drv = rc,
                                         !.ndrv = @ + 1])
  /\ UNCHANGED <<next_device_id, dev_ids, mnt, ref_count, fs_lock, h_lock, held>>

(* if (!rc) rc = fs->fsops->mkdir(&p, mode)   (rmdir, unlink alike) *)
StructDriver(t, op) ==
  /\ pc[t] = "driver" /\ call[t].op = op
  /\ \E rc \in DriverRcs :
       Goto(t, "fs_unlock",
            [call[t] EXCEPT !.rc = rc, !.drv = rc, !.ndrv = @ + 1])
  /\ UNCHANGED <<next_device_id, dev_ids, mnt, ref_count, fs_lock, handles, h_lock, held>>

(* vfs_fs_exunlock(fs) *)
PathOpUnlock(t, op) ==
  /\ pc[t] = "fs_unlock" /\ call[t].op = op
  /\ LET f == call[t].fs IN
     IF FsUnlocks(op)
       THEN /\ fs_lock' = [fs_lock EXCEPT ![f] = NoThread]
            /\ held' = [held EXCEPT ![t] = @ \ {<<"fs", f, "ex">>}]
       ELSE UNCHANGED <<fs_lock, held>>
  /\ Goto(t, "post", call[t])
  /\ UNCHANGED <<next_device_id, dev_ids, mnt, ref_count, handles, h_lock>>

(* A faulty variant of vfs_open_fd_flags: O_CLOEXEC is not carried over. *)
vfs_open_fd_flags_unset(fd, flags) == fd

(* if (flags & O_CLOEXEC) fd_flags |= FD_CLOEXEC *)
vfs_open_fd_flags(fd, flags) ==
  IF O_CLOEXEC \in flags THEN fd \cup {FD_CLOEXEC} ELSE fd

(* The tail of vfs_open: stamp the handle, or release the fs. *)
vfs_open_end(t) ==
  /\ pc[t] = "post" /\ call[t].op = "open"
  /\ LET c == call[t] IN
     /\ IF c.rc = 0
          THEN handles' = [handles EXCEPT ![c.out] =
                 [@ EXCEPT !.state = "open",
                           !.fl_flags = c.flags,
                           !.fd_flags = vfs_open_fd_flags(@, c.flags)]]
          ELSE UNCHANGED handles
     /\ IF vfs_open_releases(c.rc)
          THEN /\ ref_count' = release_obj(ref_count, c.fs)
               /\ Return(t, [c EXCEPT !.net = @ - 1])
          ELSE /\ UNCHANGED ref_count
               /\ Return(t, c)
  /\ UNCHANGED <<next_device_id, dev_ids, mnt, fs_lock, h_lock, held>>

(* The tail of vfs_mkdir / vfs_rmdir / vfs_unlink: release_obj(fs). *)
StructEnd(t, op) ==
  /\ pc[t] = "post" /\ call[t].op = op
  /\ IF StructReleases(op)
       THEN /\ ref_count' = release_obj(ref_count, call[t].fs)
            /\ Return(t, [call[t] EXCEPT !.net = @ - 1])
       ELSE /\ UNCHANGED ref_count
            /\ Return(t, call[t])
  /\ UNCHANGED <<next_device_id, dev_ids, mnt, fs_lock, handles, h_lock, held>>

vfs_open(t, P, FL) ==
  \/ \E p \in P, fl \in FL : vfs_open_begin(t, p, fl)
  \/ PathOpLock(t, "open")
  \/ PathOpResolve(t, "open")
  \/ vfs_open_driver(t)
  \/ PathOpUnlock(t, "open")
  \/ vfs_open_end(t)

StructOp(t, op, P) ==
  \/ \E p \in P : StructBegin(t, op, p)
  \/ PathOpLock(t, op)
  \/ PathOpResolve(t, op)
  \/ StructDriver(t, op)
  \/ PathOpUnlock(t, op)
  \/ StructEnd(t, op)

vfs_mkdir(t, P) == StructOp(t, "mkdir", P)

vfs_rmdir(t, P) == StructOp(t, "rmdir", P)

vfs_unlink(t, P) == StructOp(t, "unlink", P)

(* ---------------- handle-based operations (handle lock domain) -------- *)

(* Faulty variants of DataCheck: the capability is not looked for; the
   open-mode flags are not looked at; vfs_seek looks for the capability
   before it looks at whence. *)
DataCheck_capability_unchecked(op, hb, whence) ==
  CASE op = "read" ->
         IF O_WRONLY \in hb.fl_flags /\ O_RDWR \notin hb.fl_flags
           THEN -EBADF ELSE 0
    [] op = "write" ->
         IF hb.fl_flags \cap {O_WRONLY, O_RDWR} = {} THEN -EBADF ELSE 0
    [] op = "seek" ->
         IF whence \notin {"SEEK_SET", "SEEK_CUR", "SEEK_END"} THEN -EINVAL
         ELSE 0
    [] OTHER -> 0

DataCheck_mode_unchecked(op, hb, whence) ==
  CASE op = "read" -> IF "read" \notin hb.fops THEN -EBADF ELSE 0
    [] op = "write" -> IF "write" \notin hb.fops THEN -EBADF ELSE 0
    [] op = "seek" ->
         IF whence \notin {"SEEK_SET", "SEEK_CUR", "SEEK_END"} THEN -EINVAL
         ELSE IF "seek" \notin hb.fops THEN -ESPIPE
         ELSE 0
    [] op = "ioctl" -> IF "ioctl" \notin hb.fops THEN -ENOTTY ELSE 0
    [] op = "fcntl" -> IF "fcntl" \notin hb.fops THEN -EINVAL ELSE 0

DataCheck_seek_capability_first(op, hb, whence) ==
  CASE op = "read" ->
         IF "read" \notin hb.fops THEN -EBADF
         ELSE IF O_WRONLY \in hb.fl_flags /\ O_RDWR \notin hb.fl_flags
           THEN -EBADF
         ELSE 0
    [] op = "write" ->
         IF "write" \notin hb.fops THEN -EBADF
         ELSE IF hb.fl_flags \cap {O_WRONLY, O_RDWR} = {} THEN -EBADF
         ELSE 0
    [] op = "seek" ->
         IF "seek" \notin hb.fops THEN -ESPIPE
         ELSE IF whence \notin {"SEEK_SET", "SEEK_CUR", "SEEK_END"}
           THEN -EINVAL
         ELSE 0
    [] op = "ioctl" -> IF "ioctl" \notin hb.fops THEN -ENOTTY ELSE 0
    [] op = "fcntl" -> IF "fcntl" \notin hb.fops THEN -EINVAL ELSE 0

(* The checks each data operation makes before it takes the handle lock:
   0, or the error it returns at once. *)
DataCheck(op, hb, whence) ==
  CASE op = "read" ->
         IF "read" \notin hb.fops THEN -EBADF
         ELSE IF O_WRONLY \in hb.fl_flags /\ O_RDWR \notin hb.fl_flags
           THEN -EBADF
         ELSE 0
    [] op = "write" ->
         IF "write" \notin hb.fops THEN -EBADF
         ELSE IF hb.fl_flags \cap {O_WRONLY, O_RDWR} = {} THEN -EBADF
         ELSE 0
    [] op = "seek" ->
         IF whence \notin {"SEEK_SET", "SEEK_CUR", "SEEK_END"} THEN -EINVAL
         ELSE IF "seek" \notin hb.fops THEN -ESPIPE
         ELSE 0
    [] op = "ioctl" -> IF "ioctl" \notin hb.fops THEN -ENOTTY ELSE 0
    [] op = "fcntl" -> IF "fcntl" \notin hb.fops THEN -EINVAL ELSE 0

(* Faulty variants of LockMode: vfs_write takes the lock shared; vfs_read
   takes it exclusive. *)
LockMode_write_shared(op) ==
  IF op \in {"read", "seek", "write"} THEN "sh" ELSE "ex"

LockMode_read_exclusive(op) == IF op = "seek" THEN "sh" ELSE "ex"

(* A faulty variant of UnlockMode: vfs_read gives the lock back with
   vfs_exunlock. *)
UnlockMode_read_exclusive(op) == IF op = "seek" THEN "sh" ELSE "ex"

(* vfs_shlock for read and seek, vfs_exlock for write, ioctl and fcntl. *)
LockMode(op) == IF op \in {"read", "seek"} THEN "sh" ELSE "ex"

(* vfs_shunlock for read and seek, vfs_exunlock for the others. *)
UnlockMode(op) == IF op \in {"read", "seek"} THEN "sh" ELSE "ex"

DataOpBegin(t, op, h, whence) ==
  /\ pc[t] = "idle"
  /\ handles[h].state = "open"
  /\ LET c0 == [NoCall EXCEPT !.op = op, !.h = h, !.whence = whence]
         bad == DataCheck(op, handles[h], whence)
     IN IF bad # 0 THEN Return(t, [c0 EXCEPT !.rc = bad])
        ELSE Goto(t, "h_lock", c0)
  /\ UNCHANGED <<next_device_id, dev_ids, mnt, ref_count, fs_lock, handles, h_lock, held>>

(* vfs_shlock(h) / vfs_exlock(h) *)
DataOpLock(t, op) ==
  /\ pc[t] = "h_lock" /\ call[t].op = op
  /\ LET h == call[t].h
         m == LockMode(op)
     IN /\ h_can_lock(h, m)
        /\ h_lock' = [h_lock EXCEPT ![h] = h_locked(@, m)]
        /\ held' = [held EXCEPT ![t] = @ \cup {<<"handle", h, m>>}]
  /\ Goto(t, "h_driver", [call[t] EXCEPT !.nlock = @ + 1])
  /\ UNCHANGED <<next_device_id, dev_ids, mnt, ref_count, fs_lock, handles>>

(* ret = hb->fops->read(h, buf, buf_size)   (write, seek, ioctl, fcntl) *)
DataOpDriver(t, op) ==
  /\ pc[t] = "h_driver" /\ call[t].op = op
  /\ \E rc \in DriverRcs :
       Goto(t, "h_unlock",
            [call[t] EXCEPT !.rc = rc, !.drv = rc, !.ndrv = @ + 1])
  /\ UNCHANGED <<next_device_id, dev_ids, mnt, ref_count, fs_lock, handles, h_lock, held>>

(* vfs_shunlock(h) / vfs_exunlock(h); return ret *)
DataOpUnlock(t, op) ==
  /\ pc[t] = "h_unlock" /\ call[t].op = op
  /\ LET h == call[t].h
         m == UnlockMode(op)
     IN /\ h_lock' = [h_lock EXCEPT ![h] = h_unlocked(@, m)]
        /\ held' = [held EXCEPT ![t] = @ \ {<<"handle", h, m>>}]
  /\ Return(t, call[t])
  /\ UNCHANGED <<next_device_id, dev_ids, mnt, ref_count, fs_lock, handles>>

DataOp(t, op, W) ==
  \/ \E h \in HandleIds, w \in W : DataOpBegin(t, op, h, w)
  \/ DataOpLock(t, op)
  \/ DataOpDriver(t, op)
  \/ DataOpUnlock(t, op)

vfs_read(t) == DataOp(t, "read", {""})

vfs_write(t) == DataOp(t, "write", {""})

vfs_seek(t, W) == DataOp(t, "seek", W)

vfs_ioctl(t) == DataOp(t, "ioctl", {""})

vfs_fcntl(t) == DataOp(t, "fcntl", {""})

(* --------------------------- close and dup ---------------------------- *)

(* Faulty variants of vfs_close_ref: two releases; none. *)
vfs_close_ref_twice(r, f) == release_obj(release_obj(r, f), f)

vfs_close_ref_none(r, f) == r

(* What vfs_close does to the reference count after the driver's close. *)
vfs_close_ref(r, f) == release_obj(r, f)

(* What vfs_dup does to the reference count after the driver's dup. *)
vfs_dup_ref(r, f) == retain_obj(r, f)

(* fs->fsops->close(h): the driver tears the handle down. *)
vfs_close_driver(t, h) ==
  /\ pc[t] = "idle"
  /\ handles[h].state = "open"
  /\ handles' = [handles EXCEPT ![h] = FreeHandle]
  /\ \E drc \in DriverRcs :
       Goto(t, "close_rel",
            [NoCall EXCEPT !.op = "close", !.h = h, !.fs = handles[h].fs,
                           !.ndrv = 1, !.drv = drc])
  /\ UNCHANGED <<next_device_id, dev_ids, mnt, ref_count, fs_lock, h_lock, held>>

(* release_obj(fs); ASSERT(get_ref_count(fs) > 0) *)
vfs_close_release(t) ==
  /\ pc[t] = "close_rel"
  /\ ref_count' = vfs_close_ref(ref_count, call[t].fs)
  /\ Return(t, [call[t] EXCEPT
                  !.net = @ + (ref_count'[call[t].fs] - ref_count[call[t].fs]),
                  !.asserted = ref_count'[call[t].fs] > 0])
  /\ UNCHANGED <<next_device_id, dev_ids, mnt, fs_lock, handles, h_lock, held>>

vfs_close(t) ==
  \/ \E h \in HandleIds : vfs_close_driver(t, h)
  \/ vfs_close_release(t)

(* A faulty variant of vfs_dup_fd_flags: the duplicate keeps the flags the
   driver copied. *)
vfs_dup_fd_flags_inherited(copied) == copied

(* The descriptor flags vfs_dup leaves in the duplicate: 0. *)
vfs_dup_fd_flags(copied) == {}

(* rc = hb->fs->fsops->dup(h, dup_h): the driver copies the handle. *)
vfs_dup_driver(t, h) ==
  /\ pc[t] = "idle"
  /\ handles[h].state = "open"
  /\ LET c0 == [NoCall EXCEPT !.op = "dup", !.h = h, !.fs = handles[h].fs,
                              !.ndrv = 1]
     IN \E rc \in DriverRcs :
          /\ rc = 0 => FreeSlots # {}
          /\ IF rc # 0
               THEN /\ UNCHANGED handles
                    /\ Return(t, [c0 EXCEPT !.rc = rc])
               ELSE /\ handles' = [handles EXCEPT ![NewSlot] =
                          [handles[h] EXCEPT !.state = "new"]]
                    /\ Goto(t, "dup_post", [c0 EXCEPT !.out = NewSlot])
  /\ UNCHANGED <<next_device_id, dev_ids, mnt, ref_count, fs_lock, h_lock, held>>

(* the duplicate's fd_flags = 0; retain_obj(hb->fs); return 0 *)
vfs_dup_end(t) ==
  /\ pc[t] = "dup_post"
  /\ handles' = [handles EXCEPT ![call[t].out] =
                   [@ EXCEPT !.fd_flags = vfs_dup_fd_flags(@),
                             !.state = "open"]]
  /\ ref_count' = vfs_dup_ref(ref_count, call[t].fs)
  /\ Return(t, [call[t] EXCEPT
                  !.net = @ + (ref_count'[call[t].fs] - ref_count[call[t].fs])])
  /\ UNCHANGED <<next_device_id, dev_ids, mnt, fs_lock, h_lock, held>>

vfs_dup(t) ==
  \/ \E h \in HandleIds : vfs_dup_driver(t, h)
  \/ vfs_dup_end(t)

(* The process-level descriptor table sets or clears close-on-exec in the
   descriptor flags of one open handle. *)
set_fd_flags(h, v) ==
  /\ handles[h].state = "open"
  /\ handles[h].fd_flags # v
  /\ handles' = [handles EXCEPT ![h].fd_flags = v]
  /\ UNCHANGED <<next_device_id, dev_ids, mnt, ref_count, fs_lock, h_lock, pc, call, held>>

(* ------------------------ device identifiers -------------------------- *)

(* A faulty variant of next_id: the counter is left as it is. *)
next_id_same(v) == v

(* The ++ of the u32 counter; the calls are bounded by MaxDevCalls, far
   below the 2^32 calls after which it wraps. *)
next_id(v) == v + 1

(* The calls of vfs_get_new_device_id begun so far. *)
DevCalls ==
  Len(dev_ids) + Cardinality({t \in Threads : pc[t] = "dev_write"})

(* return next_device_id++, first half: the counter is read; this is the
   value the call returns.  With exclusive set, the call begins only when
   no other call of vfs_get_new_device_id is in progress. *)
vfs_get_new_device_id_read(t, exclusive) ==
  /\ pc[t] = "idle"
  /\ DevCalls < (IF exclusive THEN MaxDevCalls ELSE MaxRaceCalls)
  /\ exclusive => \A u \in Threads : pc[u] # "dev_write"
  /\ Goto(t, "dev_write",
          [NoCall EXCEPT !.op = "get_new_device_id", !.rc = next_device_id])
  /\ UNCHANGED <<mnt, ref_count, fs_lock, handles, h_lock, held,
                 next_device_id, dev_ids>>

(* return next_device_id++, second half: the counter is written, with no
   lock and no atomic instruction; the build stores the value read plus
   one, or increments the counter in memory. *)
vfs_get_new_device_id_write(t) ==
  /\ pc[t] = "dev_write"
  /\ \E v \in {next_id(call[t].rc), next_id(next_device_id)} :
       next_device_id' = v
  /\ dev_ids' = Append(dev_ids, call[t].rc)
  /\ Return(t, call[t])
  /\ UNCHANGED <<mnt, ref_count, fs_lock, handles, h_lock, held>>

vfs_get_new_device_id(t, exclusive) ==
  \/ vfs_get_new_device_id_read(t, exclusive)
  \/ vfs_get_new_device_id_write(t)

(* --------------------------- specifications --------------------------- *)

(* The caller takes the result of its call: the thread is idle again. *)
Done(t) ==
  /\ pc[t] = "ret"
  /\ pc' = [pc EXCEPT ![t] = "idle"]
  /\ call' = [call EXCEPT ![t] = NoCall]
  /\ UNCHANGED <<next_device_id, dev_ids, mnt, ref_count, fs_lock, handles, h_lock, held>>

(* Every dispatch operation, two callers; the second filesystem is mounted
   like the first, or read-only. *)
Next ==
  \E t \in Pair :
    \/ vfs_open(t, CorePaths, CoreFlags)
    \/ vfs_close(t)
    \/ vfs_dup(t)
    \/ vfs_read(t)
    \/ vfs_write(t)
    \/ vfs_seek(t, CoreWhences)
    \/ vfs_ioctl(t)
    \/ vfs_fcntl(t)
    \/ vfs_mkdir(t, Paths)
    \/ vfs_rmdir(t, Paths)
    \/ vfs_unlink(t, Paths)
    \/ Done(t)

Init == InitWith({FullMount, ReadOnlyMount})

Spec == Init /\ [][Next]_vars

(* Only vfs_open, vfs_dup and vfs_close are called, by two callers. *)
NextHandles ==
  \E t \in Pair :
    \/ vfs_open(t, Paths, CoreFlags)
    \/ vfs_close(t)
    \/ vfs_dup(t)
    \/ Done(t)

SpecHandles == Init /\ [][NextHandles]_vars

(* Only the data operations are called, by every thread, on the handle that
   an earlier vfs_open("/rw/f", O_RDWR) has returned. *)
OpenedHandle ==
  [state |-> "open", fs |-> "fs1", fl_flags |-> {O_RDWR}, fd_flags |-> {},
   fops |-> DataOps]

InitData ==
  /\ mnt = [f \in FS |-> FullMount]
  /\ handles = [h \in HandleIds |-> IF h = 1 THEN OpenedHandle ELSE FreeHandle]
  /\ ref_count = [f \in FS |->
        MountRefCount + Cardinality({h \in HandleIds : handles[h].fs = f})]
  /\ fs_lock = [f \in FS |-> NoThread]
  /\ h_lock = [h \in HandleIds |-> [sh |-> 0, ex |-> FALSE]]
  /\ pc = [t \in Threads |-> "idle"]
  /\ call = [t \in Threads |-> NoCall]
  /\ held = [t \in Threads |-> {}]
  /\ next_device_id = 0
  /\ dev_ids = <<>>

NextData ==
  \E t \in Threads :
    \/ vfs_read(t)
    \/ vfs_write(t)
    \/ vfs_seek(t, CoreWhences)
    \/ vfs_ioctl(t)
    \/ vfs_fcntl(t)
    \/ Done(t)

SpecData == InitData /\ [][NextData]_vars

(* One caller opens and closes, with every flag word of OpenFlags. *)
NextOpen ==
  \/ vfs_open(1, Paths, OpenFlags)
  \/ vfs_close(1)
  \/ Done(1)

SpecOpen == Init /\ [][NextOpen]_vars

(* Only vfs_mkdir, vfs_rmdir and vfs_unlink are called, by two callers; the
   second filesystem is any of StructMounts. *)
NextStruct ==
  \E t \in Pair :
    \/ vfs_mkdir(t, Paths)
    \/ vfs_rmdir(t, Paths)
    \/ vfs_unlink(t, Paths)
    \/ Done(t)

InitStruct == InitWith(StructMounts)

SpecStruct == InitStruct /\ [][NextStruct]_vars

(* vfs_open with and without O_CLOEXEC, vfs_dup and vfs_close by two
   callers, and the descriptor table changing descriptor flags. *)
DupFlags == { {O_RDWR}, {O_RDWR, O_CLOEXEC} }

NextDup ==
  \/ \E t \in Pair :
       \/ vfs_open(t, {"/rw/f"}, DupFlags)
       \/ vfs_dup(t)
       \/ vfs_close(t)
       \/ Done(t)
  \/ \E h \in HandleIds, v \in SUBSET {FD_CLOEXEC} : set_fd_flags(h, v)

InitDup == InitWith({FullMount})

SpecDup == InitDup /\ [][NextDup]_vars

(* One caller opens "/alt/f" with each combination of the access-mode bits,
   calls every data operation (vfs_seek with every whence) and closes; the
   driver of the second filesystem gives its handles any subset of the data
   operations. *)
DataMounts ==
  {[flags |-> {VFS_FS_RW}, fsops |-> StructOps, fops |-> o] :
     o \in SUBSET DataOps}

ModeFlags == SUBSET {O_WRONLY, O_RDWR}

NextModes ==
  \/ vfs_open(1, {"/alt/f"}, ModeFlags)
  \/ vfs_read(1)
  \/ vfs_write(1)
  \/ vfs_seek(1, Whences)
  \/ vfs_ioctl(1)
  \/ vfs_fcntl(1)
  \/ vfs_close(1)
  \/ Done(1)

InitModes == InitWith(DataMounts)

SpecModes == InitModes /\ [][NextModes]_vars

(* vfs_get_new_device_id called by every thread, one call at a time. *)
NextDevSeq ==
  \E t \in Threads :
    \/ vfs_get_new_device_id(t, TRUE)
    \/ Done(t)

InitDev == InitWith({FullMount})

SpecDevSeq == InitDev /\ [][NextDevSeq]_vars

(* vfs_get_new_device_id called by every thread, the calls interleaved. *)
NextDevRace ==
  \E t \in Threads :
    \/ vfs_get_new_device_id(t, FALSE)
    \/ Done(t)

SpecDevRace == InitDev /\ [][NextDevRace]_vars

(* Structural and data operations mixed, by three callers, on one filesystem
   and on the handle an earlier vfs_open has returned, under fair
   scheduling: a thread inside a call that can take its next step again and
   again does take it (resolver and driver calls return; a lock that is
   free again and again is eventually granted). *)
LiveStep(t) ==
  \/ vfs_read(t)
  \/ vfs_write(t)
  \/ vfs_mkdir(t, {"/rw/f"})
  \/ Done(t)

NextLive == \E t \in Trio : LiveStep(t)

Continue(t) == pc[t] # "idle" /\ LiveStep(t)

SpecLive ==
  /\ InitData /\ [][NextLive]_vars
  /\ \A t \in Trio : SF_vars(Continue(t))

(* ------------------------------ claims -------------------------------- *)

Returned(t, ops) == pc[t] = "ret" /\ call[t].op \in ops

Quiescent == \A t \in Threads : pc[t] \in {"idle", "ret"}

OpenHandles(f) ==
  {h \in HandleIds : handles[h].state = "open" /\ handles[h].fs = f}

ShOps == {"read", "seek"}
ExOps == {"write", "ioctl", "fcntl"}

(* The threads inside the driver's data operation (one of ops) of handle h. *)
InDriver(h, ops) ==
  {t \in Threads : pc[t] = "h_driver" /\ call[t].h = h /\ call[t].op \in ops}

(* The threads that hold the lock of handle h for one of ops: from the
   acquisition to the release. *)
InSection(h, ops) ==
  {t \in Threads : pc[t] \in {"h_driver", "h_unlock"} /\ call[t].h = h
                   /\ call[t].op \in ops}

(* The threads between their path resolution and the end of their driver
   call on filesystem f. *)
InFsSection(f) ==
  {t \in Threads : pc[t] \in {"resolve", "driver", "fs_unlock"}
                   /\ call[t].fs = f}

(* C1: when vfs_mkdir, vfs_rmdir or vfs_unlink returns, on any path, and
   when vfs_open returns a failure after the mount lookup succeeded, the
   call has released the reference its lookup took: its net effect on the
   filesystem's reference count is zero. *)
C1_PathCallsRestoreRefCount ==
  \A t \in Threads :
    /\ Returned(t, StructOps) => call[t].net = 0
    /\ (Returned(t, {"open"}) /\ call[t].rc # 0) => call[t].net = 0

(* C2: under calls of vfs_open, vfs_dup and vfs_close only, whenever no call
   is in progress every filesystem's reference count is the mount's
   reference plus one per open handle. *)
C2_RefCountConservation ==
  Quiescent =>
    \A f \in FS : ref_count[f] = MountRefCount + Cardinality(OpenHandles(f))

(* C2 witness: calls have failed and succeeded, and every handle has been
   closed again. *)
C2_Witness ==
  /\ Quiescent
  /\ \A h \in HandleIds : handles[h].state = "free"
  /\ \E t, u \in Threads :
       /\ Returned(t, {"close"})
       /\ Returned(u, {"open"}) /\ call[u].rc = -EIO
       /\ ref_count[call[t].fs] = MountRefCount

(* C3: a mounted filesystem's reference count is at least 1 in every state,
   at least one more per open handle, and the assertion at the end of
   vfs_close has never failed. *)
C3_MountedRefCountPositive ==
  /\ \A f \in FS : ref_count[f] >= 1
  /\ \A f \in FS : ref_count[f] >= MountRefCount + Cardinality(OpenHandles(f))
  /\ \A t \in Threads : call[t].asserted

(* C3 witness: a vfs_close has released the last handle's reference while
   the other caller is inside vfs_mkdir on the same filesystem: the count
   is the mount's reference plus that call's. *)
C3_Witness ==
  \E t, u \in Threads :
    /\ Returned(t, {"close"})
    /\ OpenHandles(call[t].fs) = {}
    /\ ref_count[call[t].fs] = MountRefCount + 1
    /\ call[u].op = "mkdir" /\ pc[u] = "driver" /\ call[u].fs = call[t].fs

(* C4: vfs_close calls the driver's close first and then releases exactly
   one reference, whatever the driver's close reported; it takes no lock
   and reports nothing. *)
C4_CloseAlwaysReleasesOnce ==
  \A t \in Threads :
    /\ pc[t] = "close_rel" =>
         /\ call[t].ndrv = 1 /\ call[t].net = 0
         /\ held[t] = {} /\ call[t].nlock = 0
    /\ Returned(t, {"close"}) =>
         /\ call[t].ndrv = 1 /\ call[t].net = -1
         /\ held[t] = {} /\ call[t].nlock = 0
         /\ call[t].rc = 0

(* C4 witness: a vfs_close whose driver reported an error has returned. *)
C4_Witness ==
  \E t \in Threads : Returned(t, {"close"}) /\ call[t].drv = -EIO

(* C5: at most one thread at a time is inside the driver's write, ioctl or
   fcntl of a handle, and none is inside its read or seek meanwhile. *)
C5_ExclusiveDataOps ==
  \A h \in HandleIds :
    /\ Cardinality(InDriver(h, ExOps)) <= 1
    /\ InDriver(h, ExOps) # {} => InDriver(h, ShOps) = {}

(* C5 witness: one thread is inside the driver's write and two others wait
   for the lock of the same handle, for an ioctl and for a read. *)
C5_Witness ==
  \E t, u, v \in Threads :
    /\ t \in InDriver(call[t].h, {"write"})
    /\ pc[u] = "h_lock" /\ call[u].op = "ioctl" /\ call[u].h = call[t].h
    /\ pc[v] = "h_lock" /\ call[v].op = "read" /\ call[v].h = call[t].h

(* C6: a vfs_read or vfs_seek that is about to take the handle lock waits
   for nothing but a holder of the exclusive lock (so not for another read
   or seek), and while a thread is inside the driver's write no read or
   seek holds the lock of that handle. *)
C6_SharedReadSeek ==
  /\ \A t \in Threads :
       (pc[t] = "h_lock" /\ call[t].op \in ShOps
          /\ InSection(call[t].h, ExOps) = {})
         => h_can_lock(call[t].h, LockMode(call[t].op))
  /\ \A h \in HandleIds :
       InDriver(h, {"write"}) # {} =>
         h_lock[h].sh = 0 /\ InSection(h, ShOps) = {}

(* C6 witness: two threads are inside the driver's read and seek of one
   handle at once, while a vfs_write on it waits for the lock. *)
C6_Witness ==
  \E t, u, v \in Threads :
    /\ t \in InDriver(call[t].h, {"read"})
    /\ u \in InDriver(call[t].h, {"seek"})
    /\ pc[v] = "h_lock" /\ call[v].op = "write" /\ call[v].h = call[t].h
    /\ ~h_can_lock(call[v].h, LockMode("write"))

(* C7: on each filesystem at most one thread at a time is between its path
   resolution and the end of its driver call. *)
C7_StructuralOpsSerialized ==
  \A f \in FS : Cardinality(InFsSection(f)) <= 1

(* C7 witness: a vfs_mkdir is inside the driver while a vfs_open on the same
   filesystem waits for the lock. *)
C7_Witness ==
  \E t, u \in Threads :
    /\ pc[t] = "driver" /\ call[t].op = "mkdir"
    /\ pc[u] = "fs_lock" /\ call[u].op = "open" /\ call[u].fs = call[t].fs

(* Thread t waits for a lock that thread u holds. *)
WaitsFor(t, u) ==
  \/ /\ pc[t] = "fs_lock"
     /\ <<"fs", call[t].fs, "ex">> \in held[u]
  \/ /\ pc[t] = "h_lock"
     /\ \E m \in {"sh", "ex"} :
          /\ <<"handle", call[t].h, m>> \in held[u]
          /\ "ex" \in {m, LockMode(call[t].op)}

(* C8: no thread holds two locks at once, of one domain or of both; no
   thread waits for a lock while it holds one, so no two threads wait for
   each other. *)
C8_OneLockAtATime ==
  /\ \A t \in Threads : Cardinality(held[t]) <= 1
  /\ \A t \in Threads : pc[t] \in {"fs_lock", "h_lock"} => held[t] = {}
  /\ \A t, u \in Threads : ~(WaitsFor(t, u) /\ WaitsFor(u, t))

(* C8 witness: one thread holds a filesystem lock and is in the driver, the
   other holds a handle lock and is in the driver. *)
C8_Witness ==
  \E t, u \in Threads :
    /\ pc[t] = "driver" /\ held[t] = {<<"fs", call[t].fs, "ex">>}
    /\ pc[u] = "h_driver"
    /\ held[u] = {<<"handle", call[u].h, LockMode(call[u].op)>>}

(* C9: a thread that is not inside a call holds no lock, a call took at most
   one, and every lock's state is exactly what the threads inside their
   critical sections account for: each acquisition was undone by a release
   of the same lock in the same mode. *)
C9_LockBalance ==
  /\ \A t \in Threads : pc[t] \in {"idle", "ret"} => held[t] = {}
  /\ \A t \in Threads : pc[t] = "ret" => call[t].nlock <= 1
  /\ \A f \in FS, t \in Threads :
       fs_lock[f] = t <=> <<"fs", f, "ex">> \in held[t]
  /\ \A h \in HandleIds :
       /\ h_lock[h].sh =
            Cardinality({t \in Threads : <<"handle", h, "sh">> \in held[t]})
       /\ h_lock[h].ex <=> \E t \in Threads : <<"handle", h, "ex">> \in held[t]

(* C9 witness: a vfs_unlink whose driver failed and a vfs_read whose driver
   failed have returned, each after taking a lock. *)
C9_Witness ==
  \E t, u \in Threads :
    /\ Returned(t, {"unlink"}) /\ call[t].rc = -EIO /\ call[t].nlock = 1
    /\ Returned(u, {"read"}) /\ call[u].rc = -EIO /\ call[u].nlock = 1

(* C10 as stated: vfs_open with O_ASYNC returns the error of the features
   that are not supported yet. *)
C10_AsyncNotSupportedYet ==
  \A t \in Threads :
    (Returned(t, {"open"}) /\ O_ASYNC \in call[t].flags)
      => call[t].rc = -EOPNOTSUPP

(* C10 amended: vfs_open with O_ASYNC returns -EINVAL, the invalid-argument
   error, for every path and every combination of the other flags. *)
C10_AsyncInvalidArgument ==
  \A t \in Threads :
    (Returned(t, {"open"}) /\ O_ASYNC \in call[t].flags)
      => call[t].rc = -EINVAL

(* C10 witness: a vfs_open with O_ASYNC and all the bits of O_TMPFILE has
   returned -EINVAL. *)
C10_Witness ==
  \E t \in Threads :
    /\ Returned(t, {"open"})
    /\ O_TMPFILE \cup {O_ASYNC, O_CLOEXEC} \subseteq call[t].flags
    /\ call[t].rc = -EINVAL

(* The flag words vfs_open rejects: O_ASYNC set, or every bit of O_TMPFILE. *)
RejectedFlags(flags) == O_ASYNC \in flags \/ O_TMPFILE \subseteq flags

(* C11: a vfs_open rejected for its flags returns in one step from the call,
   and that step changes nothing but the caller's position and result: no
   mount lookup, no resolver call, no driver call, no lock taken, every
   reference count, every lock and every handle as before, no output
   handle. *)
C11_RejectedOpenChangesNothing ==
  [][\A t \in Threads :
       (pc'[t] = "ret" /\ pc[t] # "ret" /\ call'[t].op = "open"
          /\ RejectedFlags(call'[t].flags))
         => /\ pc[t] = "idle"
            /\ UNCHANGED <<mnt, ref_count, fs_lock, handles, h_lock, held>>
            /\ call'[t].nlook = 0 /\ call'[t].nres = 0
            /\ call'[t].ndrv = 0 /\ call'[t].nlock = 0
            /\ call'[t].net = 0 /\ call'[t].out = NoHandle
            /\ call'[t].rc # 0]_vars

(* C11 witness: while a handle is open, a vfs_open on the same filesystem
   with every bit of O_TMPFILE (and no O_ASYNC) has been rejected. *)
C11_Witness ==
  \E t \in Threads :
    /\ Returned(t, {"open"})
    /\ O_TMPFILE \subseteq call[t].flags /\ O_ASYNC \notin call[t].flags
    /\ call[t].rc = -EOPNOTSUPP /\ call[t].nlook = 0
    /\ OpenHandles("fs1") # {}
    /\ ref_count["fs1"] = MountRefCount + Cardinality(OpenHandles("fs1"))

(* The structural calls of thread t on a filesystem mounted read-only /
   read-write. *)
OnReadOnly(t) ==
  /\ call[t].op \in StructOps /\ call[t].fs # NoFS
  /\ VFS_FS_RW \notin mnt[call[t].fs].flags

OnReadWrite(t) ==
  /\ call[t].op \in StructOps /\ call[t].fs # NoFS
  /\ VFS_FS_RW \in mnt[call[t].fs].flags

(* C12: vfs_mkdir, vfs_rmdir and vfs_unlink on a filesystem mounted without
   VFS_FS_RW return -EROFS, whether or not the driver has the operation;
   they never reach the lock, the resolver or the driver. *)
C12_ReadOnlyEnforced ==
  \A t \in Threads :
    OnReadOnly(t) =>
      /\ pc[t] = "ret"
      /\ call[t].rc = -EROFS
      /\ call[t].nres = 0 /\ call[t].ndrv = 0
      /\ call[t].nlock = 0 /\ held[t] = {}

(* C12 witness: on a read-only mount whose driver has unlink only, a
   vfs_rmdir and a vfs_unlink have both returned -EROFS. *)
C12_Witness ==
  \E t, u \in Threads :
    /\ OnReadOnly(t) /\ OnReadOnly(u)
    /\ mnt[call[t].fs].fsops = {"unlink"}
    /\ Returned(t, {"rmdir"}) /\ call[t].rc = -EROFS
    /\ Returned(u, {"unlink"}) /\ call[u].rc = -EROFS

(* C13: on a read-write mount whose driver lacks the operation, vfs_mkdir
   and vfs_rmdir return -EPERM and vfs_unlink returns -EROFS; none of them
   reaches the lock, the resolver or the driver. *)
C13_MissingOperationErrors ==
  \A t \in Threads :
    (OnReadWrite(t) /\ call[t].op \notin mnt[call[t].fs].fsops) =>
      /\ pc[t] = "ret"
      /\ call[t].op \in {"mkdir", "rmdir"} => call[t].rc = -EPERM
      /\ call[t].op = "unlink" => call[t].rc = -EROFS
      /\ call[t].nres = 0 /\ call[t].ndrv = 0
      /\ call[t].nlock = 0 /\ held[t] = {}

(* C13 witness: on a read-write mount whose driver has rmdir only, a
   vfs_mkdir has returned -EPERM and a vfs_unlink -EROFS. *)
C13_Witness ==
  \E t, u \in Threads :
    /\ OnReadWrite(t) /\ OnReadWrite(u)
    /\ mnt[call[t].fs].fsops = {"rmdir"}
    /\ Returned(t, {"mkdir"}) /\ call[t].rc = -EPERM
    /\ Returned(u, {"unlink"}) /\ call[u].rc = -EROFS

(* C14: no step of a vfs_dup changes the handle it duplicates (descriptor
   flags and open-mode flags included); when a vfs_dup returns 0 the
   duplicate's descriptor flags are empty, whatever the original's are; and
   a step that changes the descriptor flags of one open handle leaves the
   descriptor flags of every other handle as they were. *)
C14_DescriptorFlagIndependence ==
  [][/\ \A t \in Threads :
          (call'[t].op = "dup" /\ pc'[t] # pc[t])
            => handles'[call'[t].h] = handles[call'[t].h]
     /\ \A t \in Threads :
          (call'[t].op = "dup" /\ pc'[t] = "ret" /\ pc[t] # "ret"
             /\ call'[t].rc = 0)
            => /\ call'[t].out \in HandleIds \ {call'[t].h}
               /\ handles'[call'[t].out].state = "open"
               /\ handles'[call'[t].out].fd_flags = {}
     /\ \A h, g \in HandleIds :
          (h # g /\ handles[h].state = "open" /\ handles'[h].state = "open"
             /\ handles'[h].fd_flags # handles[h].fd_flags)
            => handles'[g].fd_flags = handles[g].fd_flags]_vars

(* C14 witness: a vfs_dup of a handle with close-on-exec set has returned 0,
   the duplicate has it clear and the original still has it set. *)
C14_Witness ==
  \E t \in Threads :
    /\ Returned(t, {"dup"}) /\ call[t].rc = 0
    /\ handles[call[t].h].state = "open"
    /\ handles[call[t].h].fd_flags = {FD_CLOEXEC}
    /\ handles[call[t].h].fl_flags = {O_RDWR, O_CLOEXEC}
    /\ handles[call[t].out].state = "open"
    /\ handles[call[t].out].fd_flags = {}

(* The handle of the data call that thread t has returned from. *)
ReturnedOn(t, ops) == Returned(t, ops) /\ handles[call[t].h].state = "open"

(* The call of thread t returned at once: no lock, no driver call. *)
ReturnedAtOnce(t) ==
  call[t].ndrv = 0 /\ call[t].nlock = 0 /\ held[t] = {}

(* The call of thread t went through the driver once, under the lock, and
   returned what the driver returned. *)
WentThrough(t) ==
  call[t].ndrv = 1 /\ call[t].nlock = 1 /\ call[t].rc = call[t].drv

ValidWhences == {"SEEK_SET", "SEEK_CUR", "SEEK_END"}

(* C15: a data operation that the handle's driver does not have returns at
   once, with no lock taken and no driver call: -EBADF for vfs_read and
   vfs_write, -ESPIPE for vfs_seek with a valid whence, -ENOTTY for
   vfs_ioctl, -EINVAL for vfs_fcntl. *)
C15_AbsentCapabilityErrors ==
  \A t \in Threads :
    (/\ ReturnedOn(t, DataOps)
     /\ call[t].op \notin handles[call[t].h].fops
     /\ call[t].op = "seek" => call[t].whence \in ValidWhences)
      => /\ ReturnedAtOnce(t)
         /\ call[t].op \in {"read", "write"} => call[t].rc = -EBADF
         /\ call[t].op = "seek" => call[t].rc = -ESPIPE
         /\ call[t].op = "ioctl" => call[t].rc = -ENOTTY
         /\ call[t].op = "fcntl" => call[t].rc = -EINVAL

(* C15 witness: on a handle opened read-write whose driver has read only, a
   vfs_ioctl has returned -ENOTTY. *)
C15_Witness ==
  \E t \in Threads :
    /\ ReturnedOn(t, {"ioctl"})
    /\ handles[call[t].h].fops = {"read"}
    /\ handles[call[t].h].fl_flags = {O_RDWR}
    /\ call[t].rc = -ENOTTY

(* C16: with the capability present, vfs_read on a handle with O_WRONLY and
   without O_RDWR, and vfs_write on a handle with neither O_WRONLY nor
   O_RDWR, return -EBADF at once, no lock taken and no driver call; with any
   other open-mode flags the driver is called once and its result is the
   result of the call. *)
C16_OpenModeEnforced ==
  \A t \in Threads :
    LET hb == handles[call[t].h] IN
    /\ (ReturnedOn(t, {"read"}) /\ "read" \in hb.fops) =>
         IF O_WRONLY \in hb.fl_flags /\ O_RDWR \notin hb.fl_flags
           THEN call[t].rc = -EBADF /\ ReturnedAtOnce(t)
           ELSE WentThrough(t)
    /\ (ReturnedOn(t, {"write"}) /\ "write" \in hb.fops) =>
         IF O_WRONLY \notin hb.fl_flags /\ O_RDWR \notin hb.fl_flags
           THEN call[t].rc = -EBADF /\ ReturnedAtOnce(t)
           ELSE WentThrough(t)

(* C16 witness: a vfs_read on a handle opened with O_WRONLY has returned
   -EBADF, the driver having read. *)
C16_Witness ==
  \E t \in Threads :
    /\ ReturnedOn(t, {"read"})
    /\ "read" \in handles[call[t].h].fops
    /\ handles[call[t].h].fl_flags = {O_WRONLY}
    /\ call[t].rc = -EBADF /\ call[t].ndrv = 0

(* C17: vfs_seek with a whence other than SEEK_SET, SEEK_CUR, SEEK_END
   returns -EINVAL at once, whether or not the driver has seek; with one of
   the three, and the driver having seek, the driver is called. *)
C17_SeekWhenceFirst ==
  \A t \in Threads :
    ReturnedOn(t, {"seek"}) =>
      IF call[t].whence \notin ValidWhences
        THEN call[t].rc = -EINVAL /\ ReturnedAtOnce(t)
        ELSE "seek" \in handles[call[t].h].fops => WentThrough(t)

(* C17 witness: a vfs_seek with SEEK_DATA on a handle whose driver has no
   seek has returned -EINVAL. *)
C17_Witness ==
  \E t \in Threads :
    /\ ReturnedOn(t, {"seek"})
    /\ call[t].whence = "SEEK_DATA"
    /\ "seek" \notin handles[call[t].h].fops
    /\ call[t].rc = -EINVAL

(* C18: when a vfs_open returns 0 the handle it hands out has the call's
   flags, all of them and nothing else, as its open-mode flags, and has
   FD_CLOEXEC in its descriptor flags if O_CLOEXEC is among them, and no
   other handle was touched; no step of a vfs_open that has failed writes
   the open-mode flags or the descriptor flags of any handle. *)
C18_OpenStampsFlags ==
  [][\A t \in Threads :
       (call'[t].op = "open" /\ pc'[t] # pc[t]) =>
         IF pc'[t] = "ret" /\ call'[t].rc = 0
           THEN LET out == call'[t].out IN
                /\ out \in HandleIds
                /\ handles'[out].state = "open"
                /\ handles'[out].fl_flags = call'[t].flags
                /\ O_CLOEXEC \in call'[t].flags
                     => FD_CLOEXEC \in handles'[out].fd_flags
                /\ \A h \in HandleIds \ {out} : handles'[h] = handles[h]
           ELSE call'[t].rc # 0 =>
                  \A h \in HandleIds :
                    /\ handles'[h].fl_flags = handles[h].fl_flags
                    /\ handles'[h].fd_flags = handles[h].fd_flags]_vars

(* C18 witness: a vfs_open with O_RDWR | O_CLOEXEC has returned a handle
   that carries both flags and FD_CLOEXEC, after an earlier handle was
   opened without O_CLOEXEC. *)
C18_Witness ==
  \E t \in Threads, g \in HandleIds :
    /\ Returned(t, {"open"}) /\ call[t].rc = 0
    /\ call[t].flags = {O_RDWR, O_CLOEXEC}
    /\ handles[call[t].out].fl_flags = {O_RDWR, O_CLOEXEC}
    /\ handles[call[t].out].fd_flags = {FD_CLOEXEC}
    /\ g # call[t].out /\ handles[g].state = "open"
    /\ handles[g].fd_flags = {}

(* C19: with one call of vfs_get_new_device_id at a time, the counter is the
   number of calls made, the k-th call has returned k - 1, and so the values
   returned are strictly increasing and pairwise different. *)
C19_SequentialDeviceIds ==
  /\ \A k \in 1..Len(dev_ids) : dev_ids[k] = k - 1
  /\ \A j, k \in 1..Len(dev_ids) : j < k => dev_ids[j] < dev_ids[k]
  /\ (\A t \in Threads : pc[t] # "dev_write")
       => next_device_id = Len(dev_ids)
  /\ \A t \in Threads :
       pc[t] = "dev_write" =>
         call[t].rc = Len(dev_ids) /\ next_device_id = Len(dev_ids)

(* C19 witness: the fourth call has returned 3 to one thread, after another
   thread got 0. *)
C19_Witness ==
  \E t, u \in Threads :
    /\ Returned(t, {"get_new_device_id"}) /\ call[t].rc = 3
    /\ Returned(u, {"get_new_device_id"}) /\ call[u].rc = 0
    /\ Len(dev_ids) = 4 /\ next_device_id = 4

(* C20: with the calls of vfs_get_new_device_id interleaved, no two calls
   return the same identifier and the counter never decreases. *)
C20_ConcurrentDeviceIdsUnique ==
  /\ [](\A j, k \in 1..Len(dev_ids) : j # k => dev_ids[j] # dev_ids[k])
  /\ [][next_device_id' >= next_device_id]_vars

(* C21: a thread inside vfs_resolve or inside the driver's open, mkdir,
   rmdir or unlink holds the exclusive lock of the filesystem it works on;
   the driver is entered only with a path the resolver produced under that
   same lock, and a call resolves once and calls the driver at most once
   before it gives the lock back. *)
C21_ResolveAndDriverUnderFsLock ==
  \A t \in Threads :
    /\ pc[t] \in {"resolve", "driver"} =>
         /\ fs_lock[call[t].fs] = t
         /\ held[t] = {<<"fs", call[t].fs, "ex">>}
         /\ call[t].nlock = 1
    /\ pc[t] = "resolve" => call[t].nres = 0 /\ call[t].ndrv = 0
    /\ pc[t] = "driver" =>
         call[t].nres = 1 /\ call[t].res = 0 /\ call[t].ndrv = 0
    /\ call[t].op \in PathOps =>
         /\ call[t].nres <= 1 /\ call[t].ndrv <= call[t].nres
         /\ (call[t].nres = 1 /\ pc[t] = "fs_unlock") => fs_lock[call[t].fs] = t

(* C21 witness: a vfs_open is inside the driver on a filesystem while a
   vfs_unlink on it waits for the lock and has neither resolved nor called
   the driver. *)
C21_Witness ==
  \E t, u \in Threads :
    /\ pc[t] = "driver" /\ call[t].op = "open" /\ fs_lock[call[t].fs] = t
    /\ pc[u] = "fs_lock" /\ call[u].op = "unlink" /\ call[u].fs = call[t].fs
    /\ call[u].nres = 0

(* C22: a vfs_open, vfs_mkdir, vfs_rmdir or vfs_unlink that took the
   filesystem lock returns the resolver's error, without a driver call, if
   the resolver failed; otherwise it has called the driver once and returns
   what the driver returned. *)
C22_StructuralResultPassThrough ==
  \A t \in Threads :
    (Returned(t, PathOps) /\ call[t].nlock = 1) =>
      /\ call[t].nres = 1
      /\ IF call[t].res # 0
           THEN call[t].ndrv = 0 /\ call[t].rc = call[t].res
           ELSE call[t].ndrv = 1 /\ call[t].rc = call[t].drv

(* C22 witness: a vfs_rmdir has returned the resolver's -ENOENT with no
   driver call, and a vfs_open has returned the driver's -EIO. *)
C22_Witness ==
  \E t, u \in Threads :
    /\ Returned(t, {"rmdir"}) /\ call[t].nlock = 1
    /\ call[t].rc = -ENOENT /\ call[t].res = -ENOENT /\ call[t].ndrv = 0
    /\ Returned(u, {"open"}) /\ call[u].nlock = 1
    /\ call[u].rc = -EIO /\ call[u].drv = -EIO /\ call[u].ndrv = 1

(* C24: no thread is inside the driver's read, write, seek, ioctl or fcntl
   of a handle, or past the entry checks and about to take its lock, once
   the driver's close has run on that handle. *)
C24_NoDataOpOnClosedHandle ==
  \A t \in Threads :
    (call[t].op \in DataOps /\ pc[t] \in {"h_lock", "h_driver"})
      => handles[call[t].h].state = "open"

(* Thread t is inside a call; it is blocked at a lock that is not free. *)
InCall(t) == pc[t] \notin {"idle", "ret"}

Blocked(t) ==
  \/ pc[t] = "fs_lock" /\ ~fs_lock_free(call[t].fs)
  \/ pc[t] = "h_lock" /\ ~h_can_lock(call[t].h, LockMode(call[t].op))

(* No state has every thread that is inside a call blocked at a lock. *)
NoDeadlock ==
  (\E t \in Threads : InCall(t)) => \E t \in Threads : InCall(t) /\ ~Blocked(t)

====
